---- MODULE Spec2Model ----
(***************************************************************************)
(* Model of vrpy/sub_solve_pulp.py: sub_solve_lp, the pricing sub problem  *)
(* of the column generation procedure.  One call assembles a 0/1 program   *)
(* over the edges of the network G, has the solver minimise it, and        *)
(* appends a route to the shared list `routes` when the objective read     *)
(* back is below -(10 ** -5).                                              *)
(*                                                                         *)
(* Numbers.  Costs, demands and times are integers.  Dual values and the   *)
(* objective are fixed-point numbers counted in units of 1/Scale, fine     *)
(* enough to put values on both sides of, on, and strictly inside the      *)
(* tolerance -(10 ** -5).                                                  *)
(***************************************************************************)
EXTENDS Integers, Sequences, FiniteSets

VARIABLES
  G,       \* the network, the same in every call of one run
  routes,  \* the list of routes shared by the calls
  pc,      \* "idle", "called" (arguments passed) or "done" (result handed back)
  duals,   \* argument: the dual values, a function on some of the nodes
  opts,    \* arguments: max_stop, max_load, max_time, time_windows
  before,  \* the list as it was when the call was made
  objective, \* pulp.value(prob.objective) as read after prob.solve()
  ret      \* "True", "False" (more_routes), "KeyError" or "none"

vars == <<G, routes, pc, duals, opts, before, objective, ret>>

(***************************************************************************)
(* Bounds of the model and constants of the program.                       *)
(***************************************************************************)
MaxRoutes == 1

MaxLen == 3

MaxStops == 4

MaxLoad == 10

MaxDuration == 60

BigM == 1000

Scale == 10 ^ 6

Tol == Scale \div (10 ^ 5)

(***************************************************************************)
(* Small helpers.                                                          *)
(***************************************************************************)
RECURSIVE Sum(_, _)
Sum(f, S) ==
  IF S = {} THEN 0
  ELSE LET e == CHOOSE e \in S : TRUE IN f[e] + Sum(f, S \ {e})

Maximum(S) == CHOOSE m \in S : \A v \in S : v <= m

Minimum(S) == CHOOSE m \in S : \A v \in S : m <= v

(***************************************************************************)
(* The networks.  Nodes are strings, an edge is a pair <<i, j>>.           *)
(***************************************************************************)
CandidateEdges ==
  { <<"Source", "A">>, <<"Source", "B">>, <<"A", "B">>, <<"B", "A">>,
    <<"A", "Sink">>, <<"B", "Sink">> }

AllNodes == {"Source", "A", "B", "Sink"}

EndPoints(E) == {e[1] : e \in E} \cup {e[2] : e \in E}

\* Attribute tables.  "plain": nothing but the stop cap can bind.
\* "tight": load, duration and the window of A bind.  "closed": A's window
\* is empty (lower > upper) and three edges exceed the duration.
CostOf(p) ==
  IF p = "tight"
  THEN [e \in CandidateEdges |->
          IF e = <<"A", "B">> THEN 0
          ELSE IF e = <<"Source", "B">> THEN 2
          ELSE IF e = <<"B", "Sink">> THEN 7
          ELSE 5]
  ELSE [e \in CandidateEdges |-> 5]

TimeOf(p) ==
  IF p \in {"tight", "closed"} THEN [e \in CandidateEdges |-> 25]
  ELSE [e \in CandidateEdges |-> 10]

DemandOf(p) ==
  IF p = "tight"
  THEN [v \in AllNodes |-> IF v \in {"A", "B"} THEN 6 ELSE 0]
  ELSE [v \in AllNodes |-> IF v \in {"A", "B"} THEN 2 ELSE 0]

LowerOf(p) ==
  IF p = "closed"
  THEN [v \in AllNodes |-> IF v = "A" THEN 50 ELSE 0]
  ELSE [v \in AllNodes |-> 0]

UpperOf(p) ==
  IF p = "closed"
  THEN [v \in AllNodes |-> IF v = "A" THEN 40 ELSE 100]
  ELSE IF p = "tight"
  THEN [v \in AllNodes |-> IF v = "A" THEN 20 ELSE 100]
  ELSE [v \in AllNodes |-> 100]

Network(E, p) ==
  [ nodes  |-> {"Source", "Sink"} \cup EndPoints(E),
    edges  |-> E,
    cost   |-> [e \in E |-> CostOf(p)[e]],
    time   |-> [e \in E |-> TimeOf(p)[e]],
    demand |-> [v \in {"Source", "Sink"} \cup EndPoints(E) |-> DemandOf(p)[v]],
    lower  |-> [v \in {"Source", "Sink"} \cup EndPoints(E) |-> LowerOf(p)[v]],
    upper  |-> [v \in {"Source", "Sink"} \cup EndPoints(E) |-> UpperOf(p)[v]] ]

Chain == { <<"Source", "A">>, <<"A", "Sink">> }

Diamond == Chain \cup { <<"Source", "B">>, <<"B", "Sink">> }

\* every edge set under "plain"; those holding the chain Source-A-Sink under
\* "tight"; those between the chain and the diamond under "closed"
Networks ==
  { Network(E, "plain") : E \in SUBSET CandidateEdges } \cup
  { Network(E, "tight") :
      E \in {F \in SUBSET CandidateEdges : Chain \subseteq F} } \cup
  { Network(E, "closed") : E \in {F \in SUBSET Diamond : Chain \subseteq F} }

successors(g, v) == { e[2] : e \in { d \in g.edges : d[1] = v } }

predecessors(g, v) == { e[1] : e \in { d \in g.edges : d[2] = v } }

(***************************************************************************)
(* The arguments of a call.                                                *)
(***************************************************************************)
DualValuesA == {0, 3 * Scale, 10 * Scale + 5, 10 * Scale + 10,
                10 * Scale + 11, 11 * Scale}

DualValuesB == {0, 11 * Scale}

\* the dual vectors with an entry for every node but Source, and the
\* vectors that miss some entries
CompleteDuals ==
  { [n \in {"A", "B", "Sink"} |->
       IF n = "A" THEN a ELSE IF n = "B" THEN b ELSE 0] :
      a \in DualValuesA, b \in DualValuesB }

PartialDuals ==
  { [n \in N |-> IF n = "Sink" THEN 0 ELSE 11 * Scale] :
      N \in SUBSET {"A", "B", "Sink"} }

DualVectors == CompleteDuals \cup PartialDuals

SeqDuals ==
  { [n \in {"A", "B", "Sink"} |-> IF n = "Sink" THEN 0 ELSE d] :
      d \in {0, 11 * Scale} }
    \cup { [n \in {"A"} |-> 11 * Scale] }

AllOn ==
  [max_stop |-> TRUE, max_load |-> TRUE, max_time |-> TRUE,
   time_windows |-> TRUE]

AllOff ==
  [max_stop |-> FALSE, max_load |-> FALSE, max_time |-> FALSE,
   time_windows |-> FALSE]

Toggles ==
  [max_stop : BOOLEAN, max_load : BOOLEAN, max_time : BOOLEAN,
   time_windows : BOOLEAN]

NoDuals == [n \in {} |-> 0]

DefaultToggles ==
  [max_stop |-> TRUE, max_load |-> FALSE, max_time |-> FALSE,
   time_windows |-> FALSE]

(***************************************************************************)
(* The program assembled by sub_solve_lp.                                  *)
(***************************************************************************)
\* (mutant) the lookup made for every node but Source, edge or no edge
MissingDualAnyNode(g, d) == \E v \in g.nodes \ {"Source"} : v \notin DOMAIN d

\* duals[v] is looked up once per edge leaving a node v other than Source
MissingDual(g, d) ==
  \E v \in g.nodes \ {"Source"} : successors(g, v) # {} /\ v \notin DOMAIN d

edge_cost(g, x) == Sum(g.cost, x) * Scale

dual_cost(g, d, x) ==
  Sum([e \in g.edges |-> d[e[1]]], {e \in x : e[1] # "Source"})

Objective(g, d, x) == edge_cost(g, x) - dual_cost(g, d, x)

in_flow(g, x, v) == Cardinality({i \in predecessors(g, v) : <<i, v>> \in x})

out_flow(g, x, v) == Cardinality({j \in successors(g, v) : <<v, j>> \in x})

FlowBalance(g, x) ==
  \A v \in g.nodes \ {"Source", "Sink"} : in_flow(g, x, v) = out_flow(g, x, v)

\* (mutant) the stop cap added when the toggle is off
StopCapInverted(g, o, x) == ~o.max_stop => Cardinality(x) <= MaxStops

StopCap(g, o, x) == o.max_stop => Cardinality(x) <= MaxStops

LoadCap(g, o, x) ==
  o.max_load => Sum([e \in g.edges |-> g.demand[e[2]]], x) <= MaxLoad

TimeCap(g, o, x) == o.max_time => Sum(g.time, x) <= MaxDuration

\* Time windows: t[i] + time <= t[j] + M * (1 - x[i,j]) for every edge and
\* lower <= t <= upper, t >= 0 for every node.  Every constraint has the
\* shape t[j] >= t[i] + w or bounds one t, so the system has a solution iff
\* its least candidate, reached by raising the visit times from the lower
\* bounds until no constraint asks for more, exists and lies under the
\* upper bounds.  t is a record over AllNodes; a node that is not in the
\* network has no constraint and stays at 0.
Stamp(g, x, t, v) ==
  Maximum({t[v]} \cup
          { t[e[1]] + g.time[e] - (IF e \in x THEN 0 ELSE BigM) :
              e \in {d \in g.edges : d[2] = v} })

Relax(g, x, t) ==
  [ Source |-> Stamp(g, x, t, "Source"),
    A      |-> Stamp(g, x, t, "A"),
    B      |-> Stamp(g, x, t, "B"),
    Sink   |-> Stamp(g, x, t, "Sink") ]

RECURSIVE Earliest(_, _, _, _)
Earliest(g, x, t, k) ==
  IF k = 0 THEN t ELSE Earliest(g, x, Relax(g, x, t), k - 1)

Floor(g, v) == IF v \in g.nodes THEN Maximum({0, g.lower[v]}) ELSE 0

TimeWindows(g, o, x) ==
  o.time_windows =>
    LET t0 == [ Source |-> Floor(g, "Source"), A |-> Floor(g, "A"),
                B |-> Floor(g, "B"), Sink |-> Floor(g, "Sink") ]
        t  == Earliest(g, x, t0, Cardinality(g.nodes))
    IN  /\ Relax(g, x, t) = t
        /\ \A v \in g.nodes : t[v] <= g.upper[v]

Feasible(g, o, x) ==
  /\ FlowBalance(g, x)
  /\ StopCap(g, o, x)
  /\ LoadCap(g, o, x)
  /\ TimeCap(g, o, x)
  /\ TimeWindows(g, o, x)

Solutions(g, o) == { x \in SUBSET g.edges : Feasible(g, o, x) }

OptValue(g, d, o) == Minimum({ Objective(g, d, x) : x \in Solutions(g, o) })

\* prob.solve(): an optimal 0/1 assignment when the program has one, any of
\* them when several are optimal.  When it has none the solver reports the
\* status, which the code prints and does not test, and leaves values of
\* its own choosing, within their bounds, in the variables: any selection.
Solve(g, d, o) ==
  LET sols == Solutions(g, o)
      m    == Minimum({ Objective(g, d, x) : x \in sols })
  IN  IF sols = {} THEN SUBSET g.edges
      ELSE { x \in sols : Objective(g, d, x) = m }

\* (mutant) the sign of the tolerance lost
ImprovingBelowTol(value) == value < Tol

\* (mutant) the comparison made with zero, without the tolerance
ImprovingNegative(value) == value < 0

Improving(value) == value < -Tol

\* (mutant) the new route put at the head of the list
PrependRoute(rs, r) == <<r>> \o rs

AppendRoute(rs, r) == Append(rs, r)

\* (mutant) the route named with the length of the list, not the length + 1
NewRouteNamedLen(g, rs, x) ==
  [ name  |-> Len(rs),
    edges |-> [e \in x |-> [cost |-> g.cost[e]]],
    cost  |-> Sum(g.cost, x) ]

NewRoute(g, rs, x) ==
  [ name  |-> Len(rs) + 1,
    edges |-> [e \in x |-> [cost |-> g.cost[e]]],
    cost  |-> Sum(g.cost, x) ]

(***************************************************************************)
(* The state machine.                                                      *)
(***************************************************************************)
Init ==
  /\ G \in Networks
  /\ routes = << >>
  /\ pc = "idle"
  /\ duals = NoDuals
  /\ opts = DefaultToggles
  /\ before = << >>
  /\ objective = 0
  /\ ret = "none"

\* The column generation driver calls sub_solve_lp(G, duals, routes, ...)
Invoke(D, O, bound) ==
  /\ pc = "idle"
  /\ Len(routes) < bound
  /\ \E d \in D, o \in O :
       /\ duals' = d
       /\ opts' = o
  /\ pc' = "called"
  /\ before' = routes
  /\ UNCHANGED <<G, routes, objective, ret>>

\* one pricing step, with any dual vector and any toggles
Call == Invoke(DualVectors, Toggles, MaxRoutes)

\* the column generation loop: repeated pricing steps on the same list
Loop == Invoke(SeqDuals, {DefaultToggles, AllOn, AllOff}, MaxLen)

\* The whole of sub_solve_lp: the lookup of the duals while the objective is
\* built, the solve, the test of the objective and the append.
sub_solve_lp ==
  /\ pc = "called"
  /\ pc' = "done"
  /\ IF MissingDual(G, duals)
     THEN /\ ret' = "KeyError"
          /\ objective' = 0
          /\ UNCHANGED routes
     ELSE \E x \in Solve(G, duals, opts) :
            /\ objective' = Objective(G, duals, x)
            /\ IF Improving(Objective(G, duals, x))
               THEN /\ routes' = AppendRoute(routes, NewRoute(G, routes, x))
                    /\ ret' = "True"
               ELSE /\ ret' = "False"
                    /\ UNCHANGED routes
  /\ UNCHANGED <<G, duals, opts, before>>

\* the driver has read the result and goes round its loop
Resume ==
  /\ pc = "done"
  /\ pc' = "idle"
  /\ duals' = NoDuals
  /\ opts' = DefaultToggles
  /\ before' = routes
  /\ objective' = 0
  /\ ret' = "none"
  /\ UNCHANGED <<G, routes>>

Next == Call \/ sub_solve_lp \/ Resume

Spec == Init /\ [][Next]_vars

NextLoop == Loop \/ sub_solve_lp \/ Resume

SpecLoop == Init /\ [][NextLoop]_vars

(***************************************************************************)
(* Vocabulary of the properties, written from their statements.            *)
(***************************************************************************)
Returned == pc = "done" /\ ret \in {"True", "False"}

LastRoute == routes[Len(routes)]

RouteEdges(r) == DOMAIN r.edges

\* a dual vector that has an entry for every node but Source, all zero
ZeroDuals ==
  /\ G.nodes \ {"Source"} \subseteq DOMAIN duals
  /\ \A n \in DOMAIN duals : duals[n] = 0

NonNegativeCosts == \A e \in G.edges : G.cost[e] >= 0

\* the simple paths from Source to Sink, as sequences of distinct nodes
SourceSinkPaths(g) ==
  UNION { { p \in [1..n -> g.nodes] :
              /\ p[1] = "Source"
              /\ p[n] = "Sink"
              /\ \A i, j \in 1..n : i # j => p[i] # p[j]
              /\ \A i \in 1..(n - 1) : <<p[i], p[i + 1]>> \in g.edges } :
          n \in 2..Cardinality(g.nodes) }

PathEdges(p) == { <<p[i], p[i + 1]>> : i \in 1..(Len(p) - 1) }

Caps == {"max_stop", "max_load", "max_time"}

\* reduced cost of a selection: the cost of its edges less the dual of the
\* tail of every edge that does not leave Source
ReducedCost(x) ==
  Sum([e \in G.edges |->
         G.cost[e] * Scale - (IF e[1] = "Source" THEN 0 ELSE duals[e[1]])], x)

Balanced(x) ==
  \A v \in G.nodes \ {"Source", "Sink"} :
    Cardinality({e \in x : e[2] = v}) = Cardinality({e \in x : e[1] = v})

WithinActiveCaps(x) ==
  /\ opts.max_stop => Cardinality(x) <= 4
  /\ opts.max_load => Sum([e \in G.edges |-> G.demand[e[2]]], x) <= 10
  /\ opts.max_time => Sum(G.time, x) <= 60

ScenarioNetwork == Network(Chain, "plain")

(***************************************************************************)
(* C1: whenever sub_solve_lp returns True, the edges of the appended route *)
(* are exactly the edges of one simple path from Source to Sink: one edge  *)
(* out of Source, one into Sink, in-degree = out-degree = 1 in between and *)
(* no selected edge off that path.  Stated for the calls whose program has *)
(* a solution, and violated there: flow balance alone lets two paths, or a *)
(* path and a cycle, be selected together.                                 *)
(***************************************************************************)
C1_RouteIsOneChain ==
  (pc = "done" /\ ret = "True" /\ Solutions(G, opts) # {}) =>
    \E p \in SourceSinkPaths(G) : RouteEdges(LastRoute) = PathEdges(p)

(***************************************************************************)
(* C2: the list of routes is append-only.  A call that returns True        *)
(* appends exactly one route, any other call none; no step shortens the    *)
(* list, and the routes that were in it stay where they were, unmodified.  *)
(***************************************************************************)
C2_AppendOnly ==
  [][ /\ Len(routes') >= Len(routes)
      /\ Len(routes') <= Len(routes) + 1
      /\ SubSeq(routes', 1, Len(routes)) = routes
      /\ pc = "called" =>
           (Len(routes') = Len(routes) + 1 <=> ret' = "True") ]_vars

C2_Witness ==
  /\ pc = "done"
  /\ ret = "True"
  /\ Len(before) >= 1
  /\ routes[1] = before[1]

(***************************************************************************)
(* C3: the route appended by a call that returns True is named with the    *)
(* length of the list before the call plus one; from an empty list on, the *)
(* k-th route is named k and no two routes share a name.                   *)
(***************************************************************************)
C3_Identifiers ==
  /\ (pc = "done" /\ ret = "True") => LastRoute.name = Len(before) + 1
  /\ \A k \in 1..Len(routes) : routes[k].name = k
  /\ \A j, k \in 1..Len(routes) : routes[j].name = routes[k].name => j = k

C3_Witness ==
  /\ pc = "done"
  /\ ret = "True"
  /\ Len(routes) = 2
  /\ routes[2].name = 2

(***************************************************************************)
(* C4, as stated: a node other than Source that is in the network and not  *)
(* in duals makes the call fail with KeyError, the list unchanged, whether *)
(* or not an edge leaves the node.  Violated: duals[v] is only looked up   *)
(* for the edges leaving v.                                                *)
(***************************************************************************)
C4_AnyMissingNodeFails ==
  (pc = "done" /\ \E v \in G.nodes \ {"Source"} : v \notin DOMAIN duals)
    => (ret = "KeyError" /\ routes = before)

(***************************************************************************)
(* C4, amended: the call fails with KeyError exactly when some edge that   *)
(* does not leave Source has a tail with no entry in duals, and the list   *)
(* is then unchanged; a node no edge leaves may be absent from duals.      *)
(***************************************************************************)
C4_MissingTailFails ==
  pc = "done" =>
    /\ ret = "KeyError" <=>
         \E e \in G.edges : e[1] # "Source" /\ e[1] \notin DOMAIN duals
    /\ ret = "KeyError" => routes = before

C4_Witness ==
  /\ pc = "done"
  /\ ret = "KeyError"
  /\ "A" \notin DOMAIN duals
  /\ "Sink" \in DOMAIN duals
  /\ routes = before

(***************************************************************************)
(* C5: when the assembled program is infeasible (time_windows on and a     *)
(* node with lower > upper) the call returns False and leaves the list     *)
(* unchanged.  The code never looks at the status: violated.               *)
(***************************************************************************)
C5_InfeasibleReturnsFalse ==
  ( /\ pc = "done"
    /\ ret # "KeyError"
    /\ opts.time_windows
    /\ \E v \in G.nodes : G.lower[v] > G.upper[v] )
  => (ret = "False" /\ routes = before)

(***************************************************************************)
(* C6: with non-negative costs and a dual vector that is zero on every     *)
(* node, the call returns False and appends nothing, whatever the toggles. *)
(***************************************************************************)
C6_ZeroDualsNoColumn ==
  (pc = "done" /\ ZeroDuals /\ NonNegativeCosts)
    => (ret = "False" /\ routes = before)

C6_Witness ==
  /\ pc = "done"
  /\ ZeroDuals
  /\ G.edges = CandidateEdges
  /\ opts = AllOn
  /\ ret = "False"

(***************************************************************************)
(* C7: with a Source-to-Sink path in the network and zero duals, the       *)
(* optimum of the assembled program is the cost of a cheapest Source-to-   *)
(* Sink path.  Violated: nothing makes a unit of flow leave Source, and    *)
(* the empty selection is optimal.                                         *)
(***************************************************************************)
C7_OptimumIsCheapestPath ==
  ( /\ Returned
    /\ ZeroDuals
    /\ SourceSinkPaths(G) # {}
    /\ Solutions(G, opts) # {} )
  => objective =
       Scale * Minimum({ Sum(G.cost, PathEdges(p)) : p \in SourceSinkPaths(G) })

C10_RouteWithinCaps ==
  (pc = "done" /\ ret = "True") =>
    LET x == RouteEdges(LastRoute)
    IN  /\ opts.max_stop => Cardinality(x) <= 4
        /\ opts.max_load => Sum([e \in G.edges |-> G.demand[e[2]]], x) <= 10
        /\ opts.max_time => Sum(G.time, x) <= 60

====
